---------------------------- MODULE Spec2Model ----------------------------
(***************************************************************************)
(* Agent orchestration demos (autogen / semantic_kernel scripts).          *)
(*                                                                         *)
(* Every script builds a few agents, submits one seed message and lets the *)
(* framework runtime deliver it.  The model keeps one state machine per    *)
(* script; `script` (chosen in Init) says which one is running.            *)
(*                                                                         *)
(* Texts are sequences of one-character strings where the code searches    *)
(* them (str.lower / str.upper / `in`), and sequences of longer chunks     *)
(* elsewhere; concatenation is \o.                                         *)
(***************************************************************************)
EXTENDS Integers, Sequences, FiniteSets, TLC

VARIABLES
    script,     \* which script's main coroutine is running
    svc_mode,   \* "stub": deterministic Completion Service; "any": arbitrary
    main,       \* position of the script's main coroutine
    queue,      \* SingleThreadedAgentRuntime message queue (publish envelopes)
    tasks,      \* handler invocations in progress (one per delivered message)
    next_mid,   \* next message id handed out by publish_message
    published,  \* every message published so far, as it was when published
    calls,      \* every Completion Service call: agent, user content, reply
    printed,    \* console output of the handlers
    handled,    \* finished handler invocations: agent, message id, outcome
    seed,       \* the message the main coroutine publishes
    task,       \* ag_sequential: the InvestmentTask object (shared by reference)
    submitted,  \* ag_sequential: contents of `task` each time it was submitted
    history1,   \* ag_sequential: `published` of the first run, kept at a replay
    chat_history,   \* semantic_kernel: responses the orchestration has collected
    result,         \* semantic_kernel: the OrchestrationResult value, <<>> until set
    error,          \* semantic_kernel: exception the main coroutine ended with
    current_round,  \* sk_groupchat: RoundRobinGroupChatManager.current_round
    current_index,  \* sk_groupchat: RoundRobinGroupChatManager.current_index
    turns,          \* semantic_kernel: agents asked to respond, in order
    hops,           \* sk_handoff: handoffs taken so far
    human_inputs    \* sk_handoff: calls of human_response_function so far

\* chosen in Init and never changed
fixed == <<script, svc_mode, seed>>

\* bookkeeping of a replayed run
replayVars == <<submitted, history1>>

agVars == <<main, queue, tasks, next_mid, published, calls, printed, handled, task>>

skVars == <<chat_history, result, error, current_round, current_index, turns,
           hops, human_inputs>>

-----------------------------------------------------------------------------
(* Texts *)

LowerChars == <<"a","b","c","d","e","f","g","h","i","j","k","l","m",
                "n","o","p","q","r","s","t","u","v","w","x","y","z">>
UpperChars == <<"A","B","C","D","E","F","G","H","I","J","K","L","M",
                "N","O","P","Q","R","S","T","U","V","W","X","Y","Z">>

\* str.lower() / str.upper(), character by character
LowerChar(c) ==
    IF \E i \in 1..26 : UpperChars[i] = c
    THEN LowerChars[CHOOSE i \in 1..26 : UpperChars[i] = c]
    ELSE c
UpperChar(c) ==
    IF \E i \in 1..26 : LowerChars[i] = c
    THEN UpperChars[CHOOSE i \in 1..26 : LowerChars[i] = c]
    ELSE c
Lower(s) == [i \in 1..Len(s) |-> LowerChar(s[i])]
Upper(s) == [i \in 1..Len(s) |-> UpperChar(s[i])]

\* `sub in s` on strings
Contains(s, sub) ==
    \E i \in 0..(Len(s) - Len(sub)) :
        \A j \in 1..Len(sub) : s[i + j] = sub[j]

T_BUY    == <<"B","U","Y">>
T_SELL   == <<"S","E","L","L">>
T_invest == <<"i","n","v","e","s","t">>

-----------------------------------------------------------------------------
(* Python dicts: insertion-ordered key/value pairs *)

DictHas(d, key) == \E i \in 1..Len(d) : d[i].k = key

DictGet(d, key) == d[CHOOSE i \in 1..Len(d) : d[i].k = key].v

\* d[key] = val : replaces in place, or appends a new key
DictSet(d, key, val) ==
    IF DictHas(d, key)
    THEN [i \in 1..Len(d) |-> IF d[i].k = key THEN [k |-> key, v |-> val] ELSE d[i]]
    ELSE Append(d, [k |-> key, v |-> val])

RECURSIVE StrItems(_)
StrItems(d) ==
    IF d = <<>> THEN <<>>
    ELSE <<d[1].k, ":">> \o d[1].v \o (IF Len(d) > 1 THEN <<",">> ELSE <<>>) \o StrItems(Tail(d))

\* str(dict)
Str(d) == <<"{">> \o StrItems(d) \o <<"}">>

-----------------------------------------------------------------------------
(* Completion Service (external collaborator) *)

Pending == <<"<pending>">>
Raised  == <<"<raised>">>

\* the deterministic stub: a fixed function of the agent's system prompt
\* (one per agent) and of the user content
Stub(agent, content) == <<agent, "(">> \o content \o <<")">>

\* replies an arbitrary service may give: where the script reads the reply
\* (the fan-out analysts search it), texts that differ in what it finds
AnyReplies ==
    IF script = "ag_concurrent"
    THEN { <<"o","k">>,
           <<"B","u","y">>,
           <<"s","e","l","l">>,
           <<"S","E","L","L","b","u","y">> }
    ELSE { <<"o","k">>, <<"B","u","y">> }

Replies(agent, content) ==
    IF svc_mode = "stub" THEN { Stub(agent, content) } ELSE AnyReplies

-----------------------------------------------------------------------------
(* autogen_core runtime: registrations, subscriptions, handlers *)

AgScripts == {"ag_sequential", "ag_concurrent", "ag_handoff", "ag_groupchat"}

\* agent types registered with the runtime
Registered ==
    CASE script = "ag_sequential" -> {"DataCollector", "FundamentalAnalyst", "ReportGenerator"}
      [] script = "ag_concurrent" -> {"fundamental_analyst", "technical_analyst", "sentiment_analyst"}
      [] script = "ag_handoff"    -> {"triage", "specialist", "human"}
      [] script = "ag_groupchat"  -> {"moderator", "fundamental", "risk"}
      [] OTHER -> {}

\* topic type each agent type subscribes to (@type_subscription / @default_subscription)
SubscribedTo(agent) ==
    IF script = "ag_sequential" THEN agent ELSE "default"

\* message types the agent's @message_handler accepts
HandlerType(agent) ==
    CASE script = "ag_sequential" -> {"InvestmentTask"}
      [] script = "ag_concurrent" -> {"InvestmentRequest"}
      [] script = "ag_handoff"    -> IF agent = "triage" THEN {"InvestmentRequest"}
                                     ELSE {"HandoffResponse"}
      [] script = "ag_groupchat"  -> {"GroupMessage"}
      [] OTHER -> {}

\* the message as a value: an InvestmentTask travels by reference to `task`
Snapshot(msg) ==
    IF msg.type = "InvestmentTask"
    THEN [type |-> "InvestmentTask", company |-> task.company, data |-> task.data]
    ELSE msg

Envelope(msg, topic, sender) ==
    [mid |-> next_mid, topic |-> topic, sender |-> sender, msg |-> msg]

\* publish_message: the envelope is queued; `published` records the message
\* as it is at this moment, and `cause`, the id of the message whose handler
\* publishes it (0: the main coroutine)
PublishAs(msg, snap, topic, sender, cause) ==
    /\ queue' = Append(queue, Envelope(msg, topic, sender))
    /\ next_mid' = next_mid + 1
    /\ published' = Append(published, [mid |-> next_mid, topic |-> topic, sender |-> sender,
                                       cause |-> cause, msg |-> snap])

NoPublish == UNCHANGED <<queue, next_mid, published>>

\* faulty variant: the runtime hands a message to every subscriber, its
\* publisher included
Recipients_WithSender(e) ==
    { a \in Registered :
        /\ SubscribedTo(a) = e.topic
        /\ e.msg.type \in HandlerType(a) }

\* the runtime does not hand a published message back to its publisher
Recipients(e) ==
    { a \in Registered :
        /\ SubscribedTo(a) = e.topic
        /\ a # e.sender
        /\ e.msg.type \in HandlerType(a) }

\* the runtime takes the next envelope and starts one handler per recipient
\* (a recipient without a handler for the type ignores it); the handlers then
\* run interleaved
Deliver ==
    /\ script \in AgScripts
    /\ main = "running"
    /\ queue # <<>>
    /\ LET e == Head(queue) IN
         /\ queue' = Tail(queue)
         /\ tasks' = tasks \cup
               { [agent |-> a, mid |-> e.mid, msg |-> e.msg, pc |-> "ready", call |-> 0] :
                   a \in Recipients(e) }
    /\ UNCHANGED <<main, next_mid, published, calls, printed, handled, task>>
    /\ UNCHANGED <<fixed, replayVars, skVars>>

Ready(agent)    == { t \in tasks : t.agent = agent /\ t.pc = "ready" }
Awaiting(agent) == { t \in tasks : t.agent = agent /\ t.pc = "awaiting" }
AwaitingAny     == { t \in tasks : t.pc = "awaiting" }

Outcome(t, how) == [agent |-> t.agent, mid |-> t.mid, outcome |-> how]

\* await self._client.create(...): the call is issued and the handler suspends
CreateCalled(t, content) ==
    /\ calls' = Append(calls, [agent |-> t.agent, mid |-> t.mid,
                               content |-> content, reply |-> Pending])
    /\ tasks' = (tasks \ {t}) \cup {[t EXCEPT !.pc = "awaiting", !.call = Len(calls) + 1]}
    /\ handled' = handled

\* the call returns `r`
CallReturned(t, r) ==
    /\ r \in Replies(t.agent, calls[t.call].content)
    /\ calls' = [calls EXCEPT ![t.call].reply = r]
    /\ handled' = handled \cup {Outcome(t, "done")}

\* the call returns `r` and the handler runs to its end
CreateReturned(t, r) ==
    /\ CallReturned(t, r)
    /\ tasks' = tasks \ {t}

\* the handler ends without calling the service
Finished(t, how) ==
    /\ tasks' = tasks \ {t}
    /\ handled' = handled \cup {Outcome(t, how)}
    /\ calls' = calls

\* faulty variant: a handler whose call failed issues the call once more
create_raises_Retried ==
    /\ main \in {"running", "invoked"}
    /\ svc_mode = "any"
    /\ \E t \in AwaitingAny :
         IF \A i \in 1..Len(calls) :
                i # t.call => (calls[i].agent # t.agent \/ calls[i].mid # t.mid)
         THEN /\ calls' = Append([calls EXCEPT ![t.call].reply = Raised],
                                 [agent |-> t.agent, mid |-> t.mid,
                                  content |-> calls[t.call].content, reply |-> Pending])
              /\ tasks' = (tasks \ {t}) \cup {[t EXCEPT !.call = Len(calls) + 1]}
              /\ handled' = handled
         ELSE /\ calls' = [calls EXCEPT ![t.call].reply = Raised]
              /\ tasks' = tasks \ {t}
              /\ handled' = handled \cup {Outcome(t, "raised")}
    /\ NoPublish
    /\ UNCHANGED <<main, printed, task>>
    /\ UNCHANGED <<fixed, replayVars, skVars>>

\* faulty variant: the collector catches the failure and passes the message on
create_raises_Swallowed ==
    /\ main \in {"running", "invoked"}
    /\ svc_mode = "any"
    /\ \E t \in AwaitingAny :
         /\ calls' = [calls EXCEPT ![t.call].reply = Raised]
         /\ tasks' = tasks \ {t}
         /\ handled' = handled \cup {Outcome(t, "raised")}
         /\ IF script = "ag_sequential" /\ t.agent = "DataCollector"
            THEN PublishAs(t.msg, Snapshot(t.msg), "FundamentalAnalyst", t.agent, t.mid)
            ELSE NoPublish
    /\ UNCHANGED <<main, printed, task>>
    /\ UNCHANGED <<fixed, replayVars, skVars>>

\* the call raises: the handler is abandoned where it awaits; nothing it would
\* have done afterwards happens
create_raises ==
    /\ main \in {"running", "invoked"}
    /\ svc_mode = "any"
    /\ \E t \in AwaitingAny :
         /\ calls' = [calls EXCEPT ![t.call].reply = Raised]
         /\ tasks' = tasks \ {t}
         /\ handled' = handled \cup {Outcome(t, "raised")}
    /\ NoPublish
    /\ UNCHANGED <<main, printed, task>>
    /\ UNCHANGED <<fixed, replayVars, skVars>>

\* faulty variant: the runtime is stopped as soon as its queue is empty
stop_when_idle_QueueOnly ==
    /\ script \in AgScripts
    /\ main = "running"
    /\ queue = <<>>
    /\ main' = "stopped"
    /\ UNCHANGED <<queue, tasks, next_mid, published, calls, printed, handled, task>>
    /\ UNCHANGED <<fixed, replayVars, skVars>>

\* await runtime.stop_when_idle(): returns once nothing is queued or running
stop_when_idle ==
    /\ script \in AgScripts
    /\ main = "running"
    /\ queue = <<>>
    /\ tasks = {}
    /\ main' = "stopped"
    /\ UNCHANGED <<queue, tasks, next_mid, published, calls, printed, handled, task>>
    /\ UNCHANGED <<fixed, replayVars, skVars>>

\* await client.close()
client_close ==
    /\ script \in AgScripts
    /\ main = "stopped"
    /\ main' = "closed"
    /\ UNCHANGED <<queue, tasks, next_mid, published, calls, printed, handled, task>>
    /\ UNCHANGED <<fixed, replayVars, skVars>>

-----------------------------------------------------------------------------
(* autogen/ag_sequential.py *)

Sectors == { <<"Renewable Energy">>, <<"Software">> }

TaskRef == [type |-> "InvestmentTask"]

\* runtime.start(); task = InvestmentTask(...); publish to the DataCollector topic
run_sequential_scenario ==
    /\ script = "ag_sequential"
    /\ main = "start"
    /\ main' = "running"
    /\ submitted' = Append(submitted, task)
    /\ PublishAs(seed, Snapshot(seed), "DataCollector", "", 0)
    /\ UNCHANGED <<tasks, calls, printed, handled, task>>
    /\ UNCHANGED <<fixed, history1, skVars>>

on_collect ==
    /\ script = "ag_sequential"
    /\ \E t \in Ready("DataCollector") : CreateCalled(t, Str(task.data))
    /\ NoPublish
    /\ UNCHANGED <<main, printed, task>>
    /\ UNCHANGED <<fixed, replayVars, skVars>>

\* faulty variant: the collector stores its output under another key
collected_OtherKey(data, r) == DictSet(data, "collection", r)

\* message.data["collected"] = result.content
collected(data, r) == DictSet(data, "collected", r)

\* the rest of on_collect: the received object is written to and published on
on_collect_returns ==
    /\ script = "ag_sequential"
    /\ \E t \in Awaiting("DataCollector") : \E r \in Replies(t.agent, calls[t.call].content) :
         /\ CreateReturned(t, r)
         /\ task' = [task EXCEPT !.data = collected(task.data, r)]
         /\ PublishAs(t.msg,
                      [type |-> "InvestmentTask", company |-> task.company,
                       data |-> collected(task.data, r)],
                      "FundamentalAnalyst", "DataCollector", t.mid)
    /\ UNCHANGED <<main, printed>>
    /\ UNCHANGED <<fixed, replayVars, skVars>>

\* faulty variant: the report stage reads the collector's output, not the analyst's
StageInput_Stale(agent) == "collected"

\* the key a stage reads its input from
StageInput(agent) ==
    CASE agent = "FundamentalAnalyst" -> "collected"
      [] agent = "ReportGenerator"    -> "analysis"

\* message.data["collected"] is read to build the call (KeyError when absent)
on_analyze ==
    /\ script = "ag_sequential"
    /\ \E t \in Ready("FundamentalAnalyst") :
         IF DictHas(task.data, StageInput(t.agent))
         THEN CreateCalled(t, DictGet(task.data, StageInput(t.agent)))
         ELSE Finished(t, "raised")
    /\ NoPublish
    /\ UNCHANGED <<main, printed, task>>
    /\ UNCHANGED <<fixed, replayVars, skVars>>

\* where on_analyze publishes the message to
AnalyzeTopic == "ReportGenerator"

on_analyze_returns ==
    /\ script = "ag_sequential"
    /\ \E t \in Awaiting("FundamentalAnalyst") : \E r \in Replies(t.agent, calls[t.call].content) :
         /\ CreateReturned(t, r)
         /\ task' = [task EXCEPT !.data = DictSet(task.data, "analysis", r)]
         /\ PublishAs(t.msg,
                      [type |-> "InvestmentTask", company |-> task.company,
                       data |-> DictSet(task.data, "analysis", r)],
                      AnalyzeTopic, "FundamentalAnalyst", t.mid)
    /\ UNCHANGED <<main, printed>>
    /\ UNCHANGED <<fixed, replayVars, skVars>>

on_report ==
    /\ script = "ag_sequential"
    /\ \E t \in Ready("ReportGenerator") :
         IF DictHas(task.data, StageInput(t.agent))
         THEN CreateCalled(t, DictGet(task.data, StageInput(t.agent)))
         ELSE Finished(t, "raised")
    /\ NoPublish
    /\ UNCHANGED <<main, printed, task>>
    /\ UNCHANGED <<fixed, replayVars, skVars>>

\* print(f"\nFinal Report for {message.company}:\n{result.content}")
on_report_returns ==
    /\ script = "ag_sequential"
    /\ \E t \in Awaiting("ReportGenerator") : \E r \in Replies(t.agent, calls[t.call].content) :
         /\ CreateReturned(t, r)
         /\ printed' = Append(printed, [agent |-> t.agent, id |-> task.company, text |-> r])
    /\ NoPublish
    /\ UNCHANGED <<main, task>>
    /\ UNCHANGED <<fixed, replayVars, skVars>>

NoTask == [company |-> <<>>, data |-> <<>>]

InitSequential ==
    /\ script = "ag_sequential"
    /\ seed = TaskRef
    /\ \E s \in Sectors :
         task = [company |-> <<"GreenTech Solutions Inc.">>,
                 data |-> << [k |-> "sector", v |-> s],
                             [k |-> "market_cap", v |-> <<"$5B">>] >>]

NextSequential ==
    \/ run_sequential_scenario
    \/ on_collect
    \/ on_collect_returns
    \/ on_analyze
    \/ on_analyze_returns
    \/ on_report
    \/ on_report_returns

\* the caller submits the same `task` a second time once the first run is
\* over: runtime.start() and publish_message(task, ...) again.  The history of
\* the first run is set aside and a new one starts.
replay ==
    /\ script = "ag_sequential"
    /\ main = "stopped"
    /\ Len(submitted) = 1
    /\ main' = "running"
    /\ submitted' = Append(submitted, task)
    /\ history1' = published
    /\ queue' = Append(queue, Envelope(seed, "DataCollector", ""))
    /\ next_mid' = next_mid + 1
    /\ published' = << [mid |-> next_mid, topic |-> "DataCollector", sender |-> "",
                        cause |-> 0, msg |-> Snapshot(seed)] >>
    /\ UNCHANGED <<tasks, calls, printed, handled, task>>
    /\ UNCHANGED <<fixed, skVars>>

-----------------------------------------------------------------------------
(* autogen/ag_concurrent.py *)

RESULTS_TOPIC_TYPE == "analysis-results"

RequestIds == { "INV-2024-001", "INV-2024-002" }

Companies == { <<"TechCorp Inc.">>, <<"Acme">> }

\* self._service_id.replace('_',' ').title()
Title(service_id) ==
    CASE service_id = "fundamental_analyst" -> "Fundamental Analyst"
      [] service_id = "technical_analyst"   -> "Technical Analyst"
      [] service_id = "sentiment_analyst"   -> "Sentiment Analyst"

\* faulty variant: every analyst class passes the same service_id to the base class
ServiceId_Copied(agent) == "fundamental_analyst"

\* each agent's self._service_id (the name it was constructed with)
ServiceId(agent) == agent

\* the f-string prompt of analyze
AnalyzePrompt(agent, message) ==
    <<"Task for ", Title(ServiceId(agent)), ":\nCompany: ">> \o message.company
        \o <<"\nData: ">> \o Str(message.financial_data)

\* runtime.start(); publish the request to DefaultTopicId()
run_concurrent_investment_analysis ==
    /\ script = "ag_concurrent"
    /\ main = "start"
    /\ main' = "running"
    /\ PublishAs(seed, seed, "default", "", 0)
    /\ UNCHANGED <<tasks, calls, printed, handled, task>>
    /\ UNCHANGED <<fixed, replayVars, skVars>>

analyze ==
    /\ script = "ag_concurrent"
    /\ \E a \in Registered : \E t \in Ready(a) :
         CreateCalled(t, AnalyzePrompt(a, t.msg))
    /\ NoPublish
    /\ UNCHANGED <<main, printed, task>>
    /\ UNCHANGED <<fixed, replayVars, skVars>>

\* faulty variant: SELL is looked for before BUY
Recommendation_SellFirst(content) ==
    IF Contains(Upper(content), T_SELL) THEN [recommendation |-> "SELL", confidence |-> 75]
    ELSE IF Contains(Upper(content), T_BUY) THEN [recommendation |-> "BUY", confidence |-> 80]
    ELSE [recommendation |-> "HOLD", confidence |-> 70]

\* simple recommendation extraction; the confidence is in hundredths
Recommendation(content) ==
    IF Contains(Upper(content), T_BUY) THEN [recommendation |-> "BUY", confidence |-> 80]
    ELSE IF Contains(Upper(content), T_SELL) THEN [recommendation |-> "SELL", confidence |-> 75]
    ELSE [recommendation |-> "HOLD", confidence |-> 70]

\* faulty variant: the handlers share one response buffer, so a result
\* carries the text of the first call that was answered
AnalysisResult_SharedBuffer(agent, message, content) ==
    LET done == { i \in 1..Len(calls) : calls[i].reply \notin {Pending, Raised} }
        text == IF done = {} THEN content
                ELSE calls[CHOOSE i \in done : \A j \in done : i <= j].reply
    IN  [type             |-> "AnalysisResult",
         analyst_type     |-> ServiceId(agent),
         company          |-> message.company,
         analysis         |-> text,
         recommendation   |-> Recommendation(text).recommendation,
         confidence_score |-> Recommendation(text).confidence,
         request_id       |-> message.request_id]

AnalysisResult(agent, message, content) ==
    [type             |-> "AnalysisResult",
     analyst_type     |-> ServiceId(agent),
     company          |-> message.company,
     analysis         |-> content,
     recommendation   |-> Recommendation(content).recommendation,
     confidence_score |-> Recommendation(content).confidence,
     request_id       |-> message.request_id]

\* the rest of analyze: print, extract, publish the result on the results topic
analyze_returns ==
    /\ script = "ag_concurrent"
    /\ \E a \in Registered : \E t \in Awaiting(a) : \E r \in Replies(a, calls[t.call].content) :
         /\ CreateReturned(t, r)
         /\ printed' = Append(printed, [agent |-> a, id |-> "", text |-> r])
         /\ PublishAs(AnalysisResult(a, t.msg, r), AnalysisResult(a, t.msg, r),
                      RESULTS_TOPIC_TYPE, a, t.mid)
    /\ UNCHANGED <<main, task>>
    /\ UNCHANGED <<fixed, replayVars, skVars>>

InitConcurrent ==
    /\ script = "ag_concurrent"
    /\ task = NoTask
    /\ \E c \in Companies, id \in RequestIds :
         seed = [type |-> "InvestmentRequest", company |-> c,
                 financial_data |-> << [k |-> "revenue", v |-> <<"$10B">>] >>,
                 request_id |-> id]

NextConcurrent ==
    \/ run_concurrent_investment_analysis
    \/ analyze
    \/ analyze_returns

-----------------------------------------------------------------------------
(* autogen/ag_handoff.py *)

HandoffIds == { "HR-001", "HR-002" }

Inquiries ==
    { <<"I"," ","w","a","n","t"," ","t","o"," ","i","n","v","e","s","t">>,
      <<"R","E","I","N","V","E","S","T","?">>,
      <<"r","e","f","u","n","d"," ","m","e">>,
      <<"i","n"," ","v","e","s","t","s">> }

\* runtime.start(); publish the request to DefaultTopicId()
run_handoff_scenario ==
    /\ script = "ag_handoff"
    /\ main = "start"
    /\ main' = "running"
    /\ PublishAs(seed, seed, "default", "", 0)
    /\ UNCHANGED <<tasks, calls, printed, handled, task>>
    /\ UNCHANGED <<fixed, replayVars, skVars>>

on_request ==
    /\ script = "ag_handoff"
    /\ \E t \in Ready("triage") : CreateCalled(t, t.msg.inquiry)
    /\ NoPublish
    /\ UNCHANGED <<main, printed, task>>
    /\ UNCHANGED <<fixed, replayVars, skVars>>

\* choice = "specialist" if "invest" in message.inquiry.lower() else "refund"
Choice(inquiry) ==
    IF Contains(Lower(inquiry), T_invest) THEN "specialist" ELSE "refund"

\* faulty variant: the response carries the demo's request id, not the request's
HandoffResponse_FixedId(message, content) ==
    [type       |-> "HandoffResponse",
     handler    |-> IF Contains(Lower(message.inquiry), T_invest) THEN "specialist" ELSE "refund",
     content    |-> content,
     request_id |-> "HR-001"]

\* faulty variant: triage keeps the request in a field of the agent and builds
\* the response from the request that was published last
HandoffResponse_Shared(message, content) ==
    LET reqs == SelectSeq(published, LAMBDA p : p.msg.type = "InvestmentRequest")
        last == reqs[Len(reqs)].msg
    IN  [type       |-> "HandoffResponse",
         handler    |-> IF Contains(Lower(last.inquiry), T_invest) THEN "specialist" ELSE "refund",
         content    |-> content,
         request_id |-> last.request_id]

\* faulty variant: triage routes by what the service replied
HandoffResponse_ByReply(message, content) ==
    [type       |-> "HandoffResponse",
     handler    |-> IF Contains(Lower(content), T_invest) THEN "specialist" ELSE "refund",
     content    |-> content,
     request_id |-> message.request_id]

HandoffResponse(message, content) ==
    [type       |-> "HandoffResponse",
     handler    |-> Choice(message.inquiry),
     content    |-> content,
     request_id |-> message.request_id]

on_request_returns ==
    /\ script = "ag_handoff"
    /\ \E t \in Awaiting("triage") : \E r \in Replies(t.agent, calls[t.call].content) :
         /\ CreateReturned(t, r)
         /\ PublishAs(HandoffResponse(t.msg, r), HandoffResponse(t.msg, r),
                      "default", "triage", t.mid)
    /\ UNCHANGED <<main, printed, task>>
    /\ UNCHANGED <<fixed, replayVars, skVars>>

\* faulty variant: HumanAdvisor's guard was copied from EquitySpecialist unchanged
ActsOn_Copied(agent) == "specialist"

\* faulty variant: each target's guard compares with the target's own name
ActsOn_OwnName(agent) == agent

\* the handler value each target acts on
ActsOn(agent) ==
    CASE agent = "specialist" -> "specialist"
      [] agent = "human"      -> "refund"

\* EquitySpecialist.on_handoff up to the call
on_handoff_specialist ==
    /\ script = "ag_handoff"
    /\ \E t \in Ready("specialist") :
         IF t.msg.handler # ActsOn(t.agent)
         THEN Finished(t, "skipped")
         ELSE CreateCalled(t, t.msg.content)
    /\ NoPublish
    /\ UNCHANGED <<main, printed, task>>
    /\ UNCHANGED <<fixed, replayVars, skVars>>

\* print(f"Equity Specialist report ({message.request_id}):\n{result.content}")
on_handoff_specialist_returns ==
    /\ script = "ag_handoff"
    /\ \E t \in Awaiting("specialist") : \E r \in Replies(t.agent, calls[t.call].content) :
         /\ CreateReturned(t, r)
         /\ printed' = Append(printed, [agent |-> t.agent, id |-> t.msg.request_id, text |-> r])
    /\ NoPublish
    /\ UNCHANGED <<main, task>>
    /\ UNCHANGED <<fixed, replayVars, skVars>>

\* faulty variant: HumanAdvisor asks the service, as EquitySpecialist does
on_handoff_human_Calls ==
    /\ script = "ag_handoff"
    /\ \E t \in Ready("human") :
         /\ IF t.msg.handler # "refund"
            THEN Finished(t, "skipped")
            ELSE CreateCalled(t, t.msg.content)
         /\ printed' = printed
    /\ NoPublish
    /\ UNCHANGED <<main, task>>
    /\ UNCHANGED <<fixed, replayVars, skVars>>

\* HumanAdvisor.on_handoff: no service call
on_handoff_human ==
    /\ script = "ag_handoff"
    /\ \E t \in Ready("human") :
         IF t.msg.handler # ActsOn(t.agent)
         THEN /\ Finished(t, "skipped")
              /\ printed' = printed
         ELSE /\ Finished(t, "done")
              /\ printed' = Append(printed, [agent |-> t.agent, id |-> t.msg.request_id,
                                            text |-> t.msg.content])
    /\ NoPublish
    /\ UNCHANGED <<main, task>>
    /\ UNCHANGED <<fixed, replayVars, skVars>>

InitHandoff ==
    /\ script = "ag_handoff"
    /\ task = NoTask
    /\ \E q \in Inquiries, id \in HandoffIds :
         seed = [type |-> "InvestmentRequest", company |-> <<"TechCorp">>,
                 inquiry |-> q, request_id |-> id]

NextHandoff ==
    \/ run_handoff_scenario
    \/ on_request
    \/ on_request_returns
    \/ on_handoff_specialist
    \/ on_handoff_specialist_returns
    \/ on_handoff_human

\* a caller that publishes a second request, with another request_id, to the
\* same runtime while the first is in progress
submit_second ==
    /\ script = "ag_handoff"
    /\ main = "running"
    /\ Len(SelectSeq(published, LAMBDA p : p.cause = 0)) = 1
    /\ \E q \in Inquiries, id \in HandoffIds \ {seed.request_id} :
         LET second == [type |-> "InvestmentRequest", company |-> <<"TechCorp">>,
                        inquiry |-> q, request_id |-> id]
         IN  PublishAs(second, second, "default", "", 0)
    /\ UNCHANGED <<main, tasks, calls, printed, handled, task>>
    /\ UNCHANGED <<fixed, replayVars, skVars>>

-----------------------------------------------------------------------------
(* autogen/ag_groupchat.py *)

Proposals == { <<"Should we invest in TechCorp Inc.?">>, <<"Should we sell?">> }

\* runtime.start(); kick off the group chat
main_groupchat ==
    /\ script = "ag_groupchat"
    /\ main = "start"
    /\ main' = "running"
    /\ PublishAs(seed, seed, "default", "", 0)
    /\ UNCHANGED <<tasks, calls, printed, handled, task>>
    /\ UNCHANGED <<fixed, replayVars, skVars>>

Invite(text) ==
    <<"Proposal: ">> \o text \o <<"\nFundamental and Risk analysts, please comment.">>

\* Moderator.on_proposal: broadcast the invite; no service call
on_proposal ==
    /\ script = "ag_groupchat"
    /\ \E t \in Ready("moderator") :
         /\ Finished(t, "done")
         /\ PublishAs([type |-> "GroupMessage", text |-> Invite(t.msg.text)],
                      [type |-> "GroupMessage", text |-> Invite(t.msg.text)],
                      "default", "moderator", t.mid)
    /\ UNCHANGED <<main, printed, task>>
    /\ UNCHANGED <<fixed, replayVars, skVars>>

\* FundamentalAnalyst.on_discussion / RiskManager.on_discussion
on_discussion ==
    /\ script = "ag_groupchat"
    /\ \E a \in {"fundamental", "risk"} : \E t \in Ready(a) : CreateCalled(t, t.msg.text)
    /\ NoPublish
    /\ UNCHANGED <<main, printed, task>>
    /\ UNCHANGED <<fixed, replayVars, skVars>>

\* print("FundamentalAnalyst:", resp.content) / print("RiskManager:", resp.content)
on_discussion_returns ==
    /\ script = "ag_groupchat"
    /\ \E a \in {"fundamental", "risk"} : \E t \in Awaiting(a) :
       \E r \in Replies(a, calls[t.call].content) :
         /\ CreateReturned(t, r)
         /\ printed' = Append(printed, [agent |-> a, id |-> "", text |-> r])
    /\ NoPublish
    /\ UNCHANGED <<main, task>>
    /\ UNCHANGED <<fixed, replayVars, skVars>>

InitGroupchat ==
    /\ script = "ag_groupchat"
    /\ task = NoTask
    /\ \E p \in Proposals : seed = [type |-> "GroupMessage", text |-> p]

NextGroupchat ==
    \/ main_groupchat
    \/ on_proposal
    \/ on_discussion
    \/ on_discussion_returns

-----------------------------------------------------------------------------
(* semantic_kernel scripts: what they share *)

SkScripts == {"sk_groupchat", "sk_handoff", "sk_sequential", "sk_concurrent", "sk_magnetic"}

\* the `members` list each script builds, in declaration order
members ==
    CASE script = "sk_groupchat"  -> <<"Moderator", "FundamentalAnalyst", "RiskManager">>
      [] script = "sk_handoff"    -> <<"TriageAdvisor", "EquitySpecialist", "HumanAdvisor">>
      [] script = "sk_sequential" -> <<"DataCollector", "FundamentalAnalyst", "ReportGenerator">>
      [] script = "sk_concurrent" -> <<"FundamentalAnalyst", "TechnicalAnalyst", "SentimentAnalyst">>
      [] script = "sk_magnetic"   -> <<"Planner", "Orchestrator">>
      [] OTHER -> <<>>

RECURSIVE JsonItems(_)
JsonItems(d) ==
    IF d = <<>> THEN <<>>
    ELSE <<"\"", d[1].k, "\": \"">> \o d[1].v \o <<"\"">>
           \o (IF Len(d) > 1 THEN <<", ">> ELSE <<>>) \o JsonItems(Tail(d))

\* orchestration._input_transform: json.dumps(asdict(task)) as a user message
input_transform(t) ==
    [name |-> "user", content |-> <<"{">> \o JsonItems(t) \o <<"}">>]

\* what an agent is given of the conversation so far
RECURSIVE Transcript(_)
Transcript(h) ==
    IF h = <<>> THEN <<>>
    ELSE <<h[1].name, ": ">> \o h[1].content \o <<"\n">> \o Transcript(Tail(h))

Request(agent, input) ==
    [agent |-> agent, mid |-> Len(turns) + 1, msg |-> input, pc |-> "ready", call |-> 0]

\* a response on its way to the actor that collects it
Response(agent, r) == [name |-> agent, content |-> r]

\* the agent that was asked to respond calls the Completion Service
agent_invoke ==
    /\ script \in SkScripts
    /\ main = "invoked"
    /\ \E t \in tasks :
         /\ t.pc = "ready"
         /\ CreateCalled(t, Transcript(t.msg))
    /\ UNCHANGED <<main, queue, next_mid, published, printed, task>>
    /\ UNCHANGED <<fixed, replayVars, skVars>>

\* `await result.get(timeout=...)` returns the value; the script prints it
get_returns ==
    /\ script \in SkScripts
    /\ main = "invoked"
    /\ result # <<>>
    /\ main' = "got"
    /\ printed' = Append(printed, [agent |-> "result", id |-> "", text |-> result[1]])
    /\ UNCHANGED <<queue, tasks, next_mid, published, calls, handled, task>>
    /\ UNCHANGED <<fixed, replayVars, skVars>>

\* `await result.get(timeout=...)` raises: the timeout elapsed with no result
\* set; the script ends with the exception
get_raises ==
    /\ script \in SkScripts
    /\ main = "invoked"
    /\ result = <<>>
    /\ main' = "raised"
    /\ error' = "TimeoutError"
    /\ UNCHANGED <<queue, tasks, next_mid, published, calls, printed, handled, task>>
    /\ UNCHANGED <<fixed, replayVars, chat_history, result, current_round, current_index,
                   turns, hops, human_inputs>>

\* faulty variant: the runtime is stopped in a finally block, on the failure
\* path as well
sk_stop_when_idle_Finally ==
    /\ script \in SkScripts
    /\ main \in {"got", "raised"}
    /\ main' = "stopped"
    /\ UNCHANGED <<queue, tasks, next_mid, published, calls, printed, handled, task>>
    /\ UNCHANGED <<fixed, replayVars, skVars>>

\* await runtime.stop_when_idle(), reached when get returned
sk_stop_when_idle ==
    /\ script \in SkScripts
    /\ main = "got"
    /\ main' = "stopped"
    /\ UNCHANGED <<queue, tasks, next_mid, published, calls, printed, handled, task>>
    /\ UNCHANGED <<fixed, replayVars, skVars>>

NextSk ==
    \/ agent_invoke
    \/ get_returns
    \/ get_raises
    \/ sk_stop_when_idle

-----------------------------------------------------------------------------
(* semantic_kernel/sk_groupchat.py: GroupChatOrchestration with              *)
(* RoundRobinGroupChatManager(max_rounds=5)                                  *)

max_rounds == 5

\* RoundRobinGroupChatManager.select_next_agent: the member at the cursor
select_next_agent(index) == members[index + 1]

\* faulty variant: the cursor wraps one member early
advance_ShortWrap(index) == (index + 1) % (Len(members) - 1)

\* ... and the cursor moves on, wrapping
advance(index) == (index + 1) % Len(members)

\* faulty variant: the round limit is reached one round early
should_terminate_Early(round) == round >= max_rounds

\* GroupChatManager.should_terminate, after current_round was incremented
should_terminate(round) == round > max_rounds

\* the manager decides what follows history `h`: it counts the round, ends the
\* chat with the last message as the result, or asks the next member to speak
determine_state_and_take_action(h) ==
    /\ current_round' = current_round + 1
    /\ IF should_terminate(current_round + 1)
       THEN /\ result' = <<h[Len(h)].content>>
            /\ tasks' = {}
            /\ UNCHANGED <<current_index, turns>>
       ELSE /\ tasks' = { Request(select_next_agent(current_index), h) }
            /\ current_index' = advance(current_index)
            /\ turns' = Append(turns, select_next_agent(current_index))
            /\ result' = result

run_investment_committee_groupchat ==
    /\ script = "sk_groupchat"
    /\ main = "start"
    /\ main' = "invoked"
    /\ chat_history' = <<input_transform(seed)>>
    /\ determine_state_and_take_action(<<input_transform(seed)>>)
    /\ UNCHANGED <<queue, next_mid, published, calls, printed, handled, task>>
    /\ UNCHANGED <<fixed, replayVars, error, hops, human_inputs>>

\* the speaker's call returns: agent_response_callback prints the reply and the
\* response goes to the manager
groupchat_agent_responds ==
    /\ script = "sk_groupchat"
    /\ main = "invoked"
    /\ \E t \in AwaitingAny : \E r \in Replies(t.agent, calls[t.call].content) :
         /\ CreateReturned(t, r)
         /\ printed' = Append(printed, [agent |-> t.agent, id |-> "", text |-> r])
         /\ queue' = Append(queue, Response(t.agent, r))
    /\ UNCHANGED <<main, next_mid, published, task>>
    /\ UNCHANGED <<fixed, replayVars, skVars>>

\* the manager receives the response: it is appended to the chat history, then
\* the manager decides what follows
groupchat_manager_handles_response ==
    /\ script = "sk_groupchat"
    /\ main = "invoked"
    /\ queue # <<>>
    /\ queue' = Tail(queue)
    /\ chat_history' = Append(chat_history, Head(queue))
    /\ determine_state_and_take_action(Append(chat_history, Head(queue)))
    /\ UNCHANGED <<main, next_mid, published, calls, printed, handled, task>>
    /\ UNCHANGED <<fixed, replayVars, error, hops, human_inputs>>

InitSkGroupchat ==
    /\ script = "sk_groupchat"
    /\ task = NoTask
    /\ \E c \in Companies :
         seed = << [k |-> "company", v |-> c],
                   [k |-> "session_id", v |-> <<"COMMITTEE-2024-Q4-001">>] >>

NextSkGroupchat ==
    \/ run_investment_committee_groupchat
    \/ groupchat_agent_responds
    \/ groupchat_manager_handles_response

-----------------------------------------------------------------------------
(* semantic_kernel/sk_handoff.py: HandoffOrchestration *)

\* model bounds: handoffs and human inputs followed before the model stops
\* exploring a session (the code sets no such limits)
MaxHops == 4
MaxHumanInputs == 1

\* get_agents: OrchestrationHandoffs().add_many(...).add(...)
handoffs(agent) ==
    CASE agent = "TriageAdvisor"    -> {"EquitySpecialist", "HumanAdvisor"}
      [] agent = "EquitySpecialist" -> {"TriageAdvisor"}
      [] OTHER -> {}

HandoffTask == [name |-> "user", content |-> <<"What investment advice?">>]

\* the orchestration starts with the first member
run_handoff_investment_consultation ==
    /\ script = "sk_handoff"
    /\ main = "start"
    /\ main' = "invoked"
    /\ chat_history' = <<HandoffTask>>
    /\ tasks' = { Request(members[1], <<HandoffTask>>) }
    /\ turns' = <<members[1]>>
    /\ UNCHANGED <<queue, next_mid, published, calls, printed, handled, task>>
    /\ UNCHANGED <<fixed, replayVars, result, error, current_round, current_index,
                   hops, human_inputs>>

\* the agent's reply calls one of its transfer functions: the conversation is
\* handed to `target`, which is asked to respond
handoff_transfers ==
    /\ script = "sk_handoff"
    /\ main = "invoked"
    /\ hops < MaxHops
    /\ \E t \in AwaitingAny : \E target \in handoffs(t.agent) :
         /\ calls' = [calls EXCEPT ![t.call].reply = <<"transfer_to_", target>>]
         /\ handled' = handled \cup {Outcome(t, "done")}
         /\ tasks' = { Request(target, chat_history) }
         /\ turns' = Append(turns, target)
         /\ hops' = hops + 1
    /\ UNCHANGED <<main, queue, next_mid, published, printed, task>>
    /\ UNCHANGED <<fixed, replayVars, chat_history, result, error, current_round,
                   current_index, human_inputs>>

\* the agent's reply calls complete_task: the orchestration ends with a result
handoff_completes ==
    /\ script = "sk_handoff"
    /\ main = "invoked"
    /\ \E t \in AwaitingAny :
         /\ calls' = [calls EXCEPT ![t.call].reply = <<"complete_task">>]
         /\ handled' = handled \cup {Outcome(t, "done")}
         /\ tasks' = {}
         /\ result' = <<<<"Task is completed">>>>
    /\ UNCHANGED <<main, queue, next_mid, published, printed, task>>
    /\ UNCHANGED <<fixed, replayVars, chat_history, error, current_round, current_index,
                   turns, hops, human_inputs>>

\* the agent replies with text: agent_response_callback prints it and
\* human_response_function is awaited
handoff_agent_responds ==
    /\ script = "sk_handoff"
    /\ main = "invoked"
    /\ \E t \in AwaitingAny : \E r \in Replies(t.agent, calls[t.call].content) :
         /\ CallReturned(t, r)
         /\ tasks' = (tasks \ {t}) \cup {[t EXCEPT !.pc = "human"]}
         /\ printed' = Append(printed, [agent |-> t.agent, id |-> "", text |-> r])
         /\ chat_history' = Append(chat_history, Response(t.agent, r))
    /\ UNCHANGED <<main, queue, next_mid, published, task>>
    /\ UNCHANGED <<fixed, replayVars, result, error, current_round, current_index,
                   turns, hops, human_inputs>>

\* human_response_function returns the user's line; the same agent goes on
human_response_function ==
    /\ script = "sk_handoff"
    /\ main = "invoked"
    /\ human_inputs < MaxHumanInputs
    /\ \E t \in tasks :
         /\ t.pc = "human"
         /\ chat_history' = Append(chat_history, [name |-> "user", content |-> <<"Human: ...">>])
         /\ tasks' = { Request(t.agent,
                               Append(chat_history, [name |-> "user", content |-> <<"Human: ...">>])) }
         /\ turns' = Append(turns, t.agent)
         /\ human_inputs' = human_inputs + 1
    /\ UNCHANGED <<main, queue, next_mid, published, calls, printed, handled, task>>
    /\ UNCHANGED <<fixed, replayVars, result, error, current_round, current_index, hops>>

InitSkHandoff ==
    /\ script = "sk_handoff"
    /\ svc_mode = "any"
    /\ task = NoTask
    /\ seed = HandoffTask

NextSkHandoff ==
    \/ run_handoff_investment_consultation
    \/ handoff_transfers
    \/ handoff_completes
    \/ handoff_agent_responds
    \/ human_response_function

-----------------------------------------------------------------------------
(* semantic_kernel/sk_sequential.py: SequentialOrchestration *)

\* the orchestration hands the transformed task to the first member
run_sequential_investment_analysis ==
    /\ script = "sk_sequential"
    /\ main = "start"
    /\ main' = "invoked"
    /\ tasks' = { Request(members[1], <<input_transform(seed)>>) }
    /\ turns' = <<members[1]>>
    /\ UNCHANGED <<queue, next_mid, published, calls, printed, handled, task>>
    /\ UNCHANGED <<fixed, replayVars, chat_history, result, error, current_round,
                   current_index, hops, human_inputs>>

\* a member's call returns: agent_response_callback prints the reply, which is
\* passed to the next member, or is the result when the member is the last
sequential_agent_responds ==
    /\ script = "sk_sequential"
    /\ main = "invoked"
    /\ \E t \in AwaitingAny : \E r \in Replies(t.agent, calls[t.call].content) :
         /\ CallReturned(t, r)
         /\ printed' = Append(printed, [agent |-> t.agent, id |-> "", text |-> r])
         /\ chat_history' = Append(chat_history, Response(t.agent, r))
         /\ IF t.mid < Len(members)
            THEN /\ tasks' = { Request(members[t.mid + 1], <<Response(t.agent, r)>>) }
                 /\ turns' = Append(turns, members[t.mid + 1])
                 /\ result' = result
            ELSE /\ tasks' = {}
                 /\ turns' = turns
                 /\ result' = <<r>>
    /\ UNCHANGED <<main, queue, next_mid, published, task>>
    /\ UNCHANGED <<fixed, replayVars, error, current_round, current_index, hops, human_inputs>>

InitSkSequential ==
    /\ script = "sk_sequential"
    /\ task = NoTask
    /\ \E s \in Sectors :
         seed = << [k |-> "company", v |-> <<"GreenTech Solutions Inc.">>],
                   [k |-> "initial_data", v |-> Str(<< [k |-> "sector", v |-> s] >>)],
                   [k |-> "analysis_chain", v |-> <<"null">>] >>

NextSkSequential ==
    \/ run_sequential_investment_analysis
    \/ sequential_agent_responds

-----------------------------------------------------------------------------
(* semantic_kernel/sk_concurrent.py: ConcurrentOrchestration *)

\* the orchestration hands the transformed task to every member at once
run_sk_concurrent_investment_analysis ==
    /\ script = "sk_concurrent"
    /\ main = "start"
    /\ main' = "invoked"
    /\ tasks' = { Request(members[i], <<input_transform(seed)>>) : i \in 1..Len(members) }
    /\ turns' = members
    /\ UNCHANGED <<queue, next_mid, published, calls, printed, handled, task>>
    /\ UNCHANGED <<fixed, replayVars, chat_history, result, error, current_round,
                   current_index, hops, human_inputs>>

\* a member's call returns: its response goes to the collecting actor
concurrent_agent_responds ==
    /\ script = "sk_concurrent"
    /\ main = "invoked"
    /\ \E t \in AwaitingAny : \E r \in Replies(t.agent, calls[t.call].content) :
         /\ CreateReturned(t, r)
         /\ queue' = Append(queue, Response(t.agent, r))
    /\ UNCHANGED <<main, next_mid, published, printed, task>>
    /\ UNCHANGED <<fixed, replayVars, skVars>>

\* the collecting actor keeps the response; the last expected one sets the result
concurrent_collects ==
    /\ script = "sk_concurrent"
    /\ main = "invoked"
    /\ queue # <<>>
    /\ queue' = Tail(queue)
    /\ chat_history' = Append(chat_history, Head(queue))
    /\ result' = IF Len(chat_history) + 1 = Len(members)
                 THEN <<Append(chat_history, Head(queue))>>
                 ELSE result
    /\ UNCHANGED <<main, tasks, next_mid, published, calls, printed, handled, task>>
    /\ UNCHANGED <<fixed, replayVars, error, current_round, current_index, turns,
                   hops, human_inputs>>

InitSkConcurrent ==
    /\ script = "sk_concurrent"
    /\ task = NoTask
    /\ \E c \in Companies, id \in RequestIds :
         seed = << [k |-> "company", v |-> c],
                   [k |-> "financial_data", v |-> Str(<< [k |-> "revenue", v |-> <<"$10B">>] >>)],
                   [k |-> "request_id", v |-> <<id>>] >>

NextSkConcurrent ==
    \/ run_sk_concurrent_investment_analysis
    \/ concurrent_agent_responds
    \/ concurrent_collects

-----------------------------------------------------------------------------
(* semantic_kernel/sk_magnetic.py: MagenticOrchestration with                *)
(* StandardMagenticManager                                                   *)

\* model bound: member turns the manager asks for before the model stops
\* exploring a run (the code sets no limit)
MaxMagneticTurns == 3

\* plans the Planner may reply with: tasks with the ids of the tasks they
\* depend on (the recorded one, cut down; a diamond; a cycle; a dependency on
\* a task that is not in the plan)
Plans ==
    { << [task_id |-> "3", dependencies |-> <<>>],
         [task_id |-> "4", dependencies |-> <<"3">>] >>,
      << [task_id |-> "A", dependencies |-> <<>>],
         [task_id |-> "B", dependencies |-> <<"A">>],
         [task_id |-> "C", dependencies |-> <<"A">>],
         [task_id |-> "D", dependencies |-> <<"B", "C">>] >>,
      << [task_id |-> "1", dependencies |-> <<"2">>],
         [task_id |-> "2", dependencies |-> <<"1">>] >>,
      << [task_id |-> "1", dependencies |-> <<"9">>] >> }

\* the plan as the JSON text of the Planner's reply
RECURSIVE PlanText(_)
PlanText(plan) ==
    IF plan = <<>> THEN <<>>
    ELSE <<"{\"task_id\": \"", plan[1].task_id, "\", \"dependencies\": [">>
           \o plan[1].dependencies \o <<"]}">> \o PlanText(Tail(plan))

\* what the service may reply to a member
MagneticReplies(agent, content) ==
    IF svc_mode = "stub" THEN { Stub(agent, content) }
    ELSE IF agent = "Planner" THEN { PlanText(plan) : plan \in Plans }
    ELSE AnyReplies

\* no member's call has failed: the manager goes on
ManagerRuns ==
    /\ script = "sk_magnetic"
    /\ main = "invoked"
    /\ result = <<>>
    /\ tasks = {}
    /\ chat_history # <<>>
    /\ \A i \in 1..Len(calls) : calls[i].reply # Raised

\* orchestration.invoke: the transformed query opens the conversation
run_magnetic_investment_analysis ==
    /\ script = "sk_magnetic"
    /\ main = "start"
    /\ main' = "invoked"
    /\ chat_history' = <<input_transform(seed)>>
    /\ UNCHANGED <<queue, tasks, next_mid, published, calls, printed, handled, task>>
    /\ UNCHANGED <<fixed, replayVars, result, error, current_round, current_index,
                   turns, hops, human_inputs>>

\* the manager asks a member of its choice to speak next
magnetic_manager_selects ==
    /\ ManagerRuns
    /\ Len(turns) < MaxMagneticTurns
    /\ \E i \in 1..Len(members) :
         /\ tasks' = { Request(members[i], chat_history) }
         /\ turns' = Append(turns, members[i])
    /\ UNCHANGED <<main, queue, next_mid, published, calls, printed, handled, task>>
    /\ UNCHANGED <<fixed, replayVars, chat_history, result, error, current_round,
                   current_index, hops, human_inputs>>

\* the member's call returns: agent_response_callback prints the reply, which
\* joins the conversation; nothing reads the reply as a plan
magnetic_agent_responds ==
    /\ script = "sk_magnetic"
    /\ main = "invoked"
    /\ \E t \in AwaitingAny : \E r \in MagneticReplies(t.agent, calls[t.call].content) :
         /\ calls' = [calls EXCEPT ![t.call].reply = r]
         /\ handled' = handled \cup {Outcome(t, "done")}
         /\ tasks' = tasks \ {t}
         /\ printed' = Append(printed, [agent |-> t.agent, id |-> "", text |-> r])
         /\ chat_history' = Append(chat_history, Response(t.agent, r))
    /\ UNCHANGED <<main, queue, next_mid, published, task>>
    /\ UNCHANGED <<fixed, replayVars, result, error, current_round, current_index,
                   turns, hops, human_inputs>>

\* the manager decides the request is satisfied and writes the final answer
magnetic_manager_finishes ==
    /\ ManagerRuns
    /\ \E r \in Replies("manager", Transcript(chat_history)) : result' = <<r>>
    /\ UNCHANGED <<main, queue, tasks, next_mid, published, calls, printed, handled, task>>
    /\ UNCHANGED <<fixed, replayVars, chat_history, error, current_round, current_index,
                   turns, hops, human_inputs>>

InitSkMagnetic ==
    /\ script = "sk_magnetic"
    /\ task = NoTask
    /\ seed = << [k |-> "query", v |-> <<"Should we invest in Tesla (TSLA)?">>],
                 [k |-> "context", v |-> Str(<< [k |-> "portfolio_type", v |-> <<"growth">>] >>)],
                 [k |-> "session_id", v |-> <<"MAGNETIC-2024-001">>] >>

NextSkMagnetic ==
    \/ run_magnetic_investment_analysis
    \/ magnetic_manager_selects
    \/ magnetic_agent_responds
    \/ magnetic_manager_finishes

-----------------------------------------------------------------------------

InitRuntime ==
    /\ svc_mode \in {"stub", "any"}
    /\ main = "start"
    /\ queue = <<>>
    /\ tasks = {}
    /\ next_mid = 1
    /\ published = <<>>
    /\ calls = <<>>
    /\ printed = <<>>
    /\ handled = {}
    /\ submitted = <<>>
    /\ history1 = <<>>
    /\ chat_history = <<>>
    /\ result = <<>>
    /\ error = "none"
    /\ current_round = 0
    /\ current_index = 0
    /\ turns = <<>>
    /\ hops = 0
    /\ human_inputs = 0

Init ==
    /\ InitRuntime
    /\ \/ InitSequential
       \/ InitConcurrent
       \/ InitHandoff
       \/ InitGroupchat
       \/ InitSkGroupchat
       \/ InitSkHandoff
       \/ InitSkSequential
       \/ InitSkConcurrent
       \/ InitSkMagnetic

Next ==
    \/ Deliver
    \/ create_raises
    \/ stop_when_idle
    \/ client_close
    \/ NextSequential
    \/ NextConcurrent
    \/ NextHandoff
    \/ NextGroupchat
    \/ NextSk
    \/ NextSkGroupchat
    \/ NextSkHandoff
    \/ NextSkSequential
    \/ NextSkConcurrent
    \/ NextSkMagnetic

vars == <<fixed, replayVars, agVars, skVars>>

Spec == Init /\ [][Next]_vars

\* the event loop runs every coroutine that can run, the Completion Service
\* answers or fails every call, and result.get returns or times out
FairSpec == Init /\ [][Next]_vars /\ WF_vars(Next)

\* the sequential pipeline with a caller that replays its message
InitReplay ==
    /\ InitRuntime
    /\ InitSequential

NextReplay ==
    \/ Deliver
    \/ create_raises
    \/ stop_when_idle
    \/ client_close
    \/ NextSequential
    \/ replay

SpecReplay == InitReplay /\ [][NextReplay]_vars

\* the handoff script with two requests in progress on one runtime,
\* deterministic service
InitTwo ==
    /\ InitRuntime
    /\ InitHandoff
    /\ svc_mode = "stub"

NextTwo ==
    \/ Deliver
    \/ stop_when_idle
    \/ client_close
    \/ NextHandoff
    \/ submit_second

SpecTwo == InitTwo /\ [][NextTwo]_vars

-----------------------------------------------------------------------------
(* Properties *)

FanOutScripts == {"ag_concurrent", "sk_concurrent"}

\* the agents a fan-out request goes to
FanOutAgents ==
    IF script = "ag_concurrent" THEN Registered
    ELSE { members[i] : i \in 1..Len(members) }

IsAnalysisResult(p) == p.msg.type = "AnalysisResult"

\* the agent names the responses of a fan-out session are tagged with, in
\* the order of the history
ResponseTags ==
    IF script = "ag_concurrent"
    THEN LET rs == SelectSeq(published, IsAnalysisResult)
         IN  [i \in 1..Len(rs) |-> rs[i].msg.analyst_type]
    ELSE [i \in 1..Len(chat_history) |-> chat_history[i].name]

\* C1: a fan-out session over N agents holds at most N responses, each tagged
\* with an agent the request was fanned out to, no two with the same agent.
C1_FanOutResponsesDistinct ==
    script \in FanOutScripts =>
        /\ Len(ResponseTags) <= Cardinality(FanOutAgents)
        /\ \A i \in 1..Len(ResponseTags) : ResponseTags[i] \in FanOutAgents
        /\ \A i, j \in 1..Len(ResponseTags) : i # j => ResponseTags[i] # ResponseTags[j]

\* every analyst of the autogen fan-out has answered
C1_AllResponded ==
    /\ script = "ag_concurrent"
    /\ Len(ResponseTags) = 3
    /\ main = "stopped"

ChainScripts == {"ag_sequential", "sk_sequential"}

\* the stages of a chain in declared order
Chain == <<"DataCollector", "FundamentalAnalyst", "ReportGenerator">>

Answered(c) == c.reply # Pending /\ c.reply # Raised

\* what the first stage is given of the initial message
ChainFirstInput ==
    IF script = "ag_sequential" THEN Str(submitted[1].data)
    ELSE Transcript(<<input_transform(seed)>>)

\* what a stage is given of the previous stage's output
ChainNextInput(prev) ==
    IF script = "ag_sequential" THEN prev.reply
    ELSE Transcript(<<Response(prev.agent, prev.reply)>>)

\* the final message of a chain, as a one-element sequence, <<>> until there
ChainFinal ==
    IF script = "ag_sequential"
    THEN [i \in 1..Len(printed) |-> printed[i].text]
    ELSE result

\* C2: in a chain the stages are called in declared order, each at most once,
\* stage i+1 only after stage i's call returned and with stage i's output as
\* its input, so the final content is the composition of the K stages on the
\* initial message.
C2_ChainAppliedInOrder ==
    script \in ChainScripts =>
        /\ Len(calls) <= Len(Chain)
        /\ \A i \in 1..Len(calls) : calls[i].agent = Chain[i]
        /\ calls # <<>> => calls[1].content = ChainFirstInput
        /\ \A i \in 2..Len(calls) :
              /\ Answered(calls[i - 1])
              /\ calls[i].content = ChainNextInput(calls[i - 1])
        /\ Len(ChainFinal) <= 1
        /\ ChainFinal # <<>> =>
              /\ Len(calls) = Len(Chain)
              /\ ChainFinal[1] = calls[Len(Chain)].reply
              /\ svc_mode = "stub" =>
                    ChainFinal[1] =
                        Stub(Chain[3], ChainNextInput([agent |-> Chain[2], reply |->
                            Stub(Chain[2], ChainNextInput([agent |-> Chain[1], reply |->
                                Stub(Chain[1], ChainFirstInput)]))]))

\* the autogen pipeline has printed its final report
C2_ReportPrinted ==
    /\ script = "ag_sequential"
    /\ Len(printed) = 1
    /\ Len(calls) = 3

\* C3 as stated: with 3 agents and max_rounds = 5 a finished round-robin
\* session has executed exactly 15 agent turns.
C3_FifteenTurns ==
    (script = "sk_groupchat" /\ result # <<>>) => Len(turns) = 15

\* C3 amended: a round-robin session never executes more than
\* max_rounds * len(agents) agent turns, and with 3 agents and max_rounds = 5
\* a session that finishes has executed exactly 5 agent turns.
C3_TurnsWithinRounds ==
    script = "sk_groupchat" =>
        /\ Len(turns) <= max_rounds * Len(members)
        /\ result # <<>> => (Len(turns) = max_rounds /\ Len(turns) = 5)

\* a round-robin session has finished
C3_GroupChatFinished ==
    /\ script = "sk_groupchat"
    /\ result # <<>>
    /\ Len(turns) = 5

HopBound == 2

\* C5: a handoff session that has taken more handoffs than the hop bound
\* has failed with ConfigurationError.
C5_HandoffWithinHopBound ==
    (script = "sk_handoff" /\ hops > HopBound) =>
        (main = "raised" /\ error = "ConfigurationError")

HandoffTargets == {"specialist", "human"}

\* the handoff messages triage has published, by message id
HandoffMids ==
    { published[i].mid : i \in { j \in 1..Len(published) :
                                    published[j].msg.type = "HandoffResponse" } }

\* a target acts on a handoff: the specialist calls the service for it, the
\* human advisor prints it
ActedOn(agent, mid) ==
    \/ \E i \in 1..Len(calls) : calls[i].agent = agent /\ calls[i].mid = mid
    \/ [agent |-> agent, mid |-> mid, outcome |-> "done"] \in handled

\* both targets have taken the handoff up
TakenUp(mid) ==
    /\ \A i \in 1..Len(queue) : queue[i].mid # mid
    /\ \A t \in tasks : t.mid = mid => t.pc # "ready"

\* C6: every handoff is acted on by at most one target, and once both
\* targets have taken it up exactly one has acted and the other returned
\* without acting.
C6_ExactlyOneTarget ==
    script = "ag_handoff" =>
        \A m \in HandoffMids :
            LET acting == { a \in HandoffTargets : ActedOn(a, m) } IN
            /\ Cardinality(acting) <= 1
            /\ TakenUp(m) =>
                  /\ Cardinality(acting) = 1
                  /\ \A a \in HandoffTargets \ acting :
                        [agent |-> a, mid |-> m, outcome |-> "skipped"] \in handled

\* a refund handoff: the human advisor acted, the specialist returned
C6_RefundHandled ==
    /\ script = "ag_handoff"
    /\ \E m \in HandoffMids :
         /\ [agent |-> "human", mid |-> m, outcome |-> "done"] \in handled
         /\ [agent |-> "specialist", mid |-> m, outcome |-> "skipped"] \in handled

C9_MessageNeverMutated ==
    (script = "ag_sequential" /\ submitted # <<>>) => task = submitted[1]

CorrelatedScripts == {"ag_concurrent", "ag_handoff"}

\* C10: every message an agent publishes while handling a message carries
\* that message's request_id, and what a handler prints for a request names
\* that request's id.
C10_CorrelationIdKept ==
    script \in CorrelatedScripts =>
        /\ \A i \in 1..Len(published) :
              published[i].cause # 0 =>
                  published[i].msg.request_id = published[published[i].cause].msg.request_id
        /\ script = "ag_handoff" =>
              \A i \in 1..Len(printed) : printed[i].id = seed.request_id

\* a handoff and the target's report for it are out
C10_HandoffReported ==
    /\ script = "ag_handoff"
    /\ Len(published) = 2
    /\ published[2].cause = 1
    /\ printed # <<>>

\* a published message as whoever holds it sees it now: an InvestmentTask is
\* the one object passed along by reference, any other message is its own value
Held(p) ==
    IF p.msg.type = "InvestmentTask" THEN [p EXCEPT !.msg = Snapshot(TaskRef)] ELSE p

\* the messages of the session in the order they were published
SessionHistory == [i \in 1..Len(published) |-> Held(published[i])]

\* C11: the history of a session only grows by appending: no step removes,
\* reorders or changes an entry that is already in it.
C11_HistoryAppendOnly ==
    [][ /\ Len(SessionHistory') >= Len(SessionHistory)
        /\ \A i \in 1..Len(SessionHistory) : SessionHistory'[i] = SessionHistory[i] ]_vars

\* the script's main coroutine is past its last statement, or left by an
\* exception
Ended ==
    IF script \in AgScripts THEN main = "closed" ELSE main \in {"stopped", "raised"}

\* a published message some agent has a handler for
IsRequest(p) == Recipients(p) # {}

\* a handler took the message to its end, or the runtime has the handler's
\* exception
AnsweredOrFailed(p) ==
    \E a \in Recipients(p) : \E how \in {"done", "raised"} :
        [agent |-> a, mid |-> p.mid, outcome |-> how] \in handled

\* nothing that was submitted is left without an answer or a failure
NoSilentDrop ==
    IF script \in AgScripts
    THEN \A i \in 1..Len(published) : IsRequest(published[i]) => AnsweredOrFailed(published[i])
    ELSE result # <<>> \/ error # "none"

ServiceFailed == \E i \in 1..Len(calls) : calls[i].reply = Raised

\* C13: a Completion Service failure on one agent call is surfaced to the
\* caller as a failed session: the run returns, no exception leaves it.
C13_FailureNotRaisedPastRun ==
    (script = "sk_sequential" /\ ServiceFailed /\ Ended) => main # "raised"

\* stage i of the chain has failed: its handler ended with an exception
StageFailed(i) ==
    \E h \in handled : h.agent = Chain[i] /\ h.outcome = "raised"

FailedMembers == { calls[i].agent : i \in { j \in 1..Len(calls) : calls[j].reply = Raised } }

\* C15: in a fan-out session one agent's missing response is not fatal: the
\* run still ends with the other agents' responses returned as its result.
C15_PartialResultsReturned ==
    (script = "sk_concurrent" /\ Cardinality(FailedMembers) = 1 /\ Ended) =>
        /\ main = "stopped"
        /\ result # <<>>
        /\ Len(result[1]) = Len(members) - 1

\* the fan-out run is marked complete: the autogen runtime was stopped (the
\* client is closed next), the semantic_kernel result is set
FanOutComplete ==
    IF script = "ag_concurrent" THEN main \in {"stopped", "closed"} ELSE result # <<>>

\* C16: a fan-out run is complete only when every agent of the fan-out was
\* dispatched and every one of their calls has finished: no call is
\* outstanding, no handler is running and nothing is left in the queue.
C16_JoinedBeforeComplete ==
    (script \in FanOutScripts /\ FanOutComplete) =>
        /\ queue = <<>>
        /\ tasks = {}
        /\ Len(calls) = Cardinality(FanOutAgents)
        /\ \A i \in 1..Len(calls) : calls[i].reply # Pending

\* the run was stopped and closed after calls that were issued in another
\* order than the agents were registered in
C16_ClosedAfterInterleaving ==
    /\ script = "ag_concurrent"
    /\ main = "closed"
    /\ Len(calls) = 3
    /\ calls[1].agent = "sentiment_analyst"
    /\ calls[3].agent = "fundamental_analyst"

\* result.get(timeout=...) gave up waiting: the deadline of the run elapsed
DeadlineElapsed == main = "raised" /\ error = "TimeoutError"

\* C17: when the deadline of a fan-out run elapses, the responses collected
\* before it are in what the caller receives.
C17_CollectedPreservedAtDeadline ==
    (script = "sk_concurrent" /\ DeadlineElapsed /\ chat_history # <<>>) =>
        (result # <<>> /\ result[1] = chat_history)

\* C18: an agent issues at most one Completion Service call for an input
\* message it handles, and none after that call has failed: no two calls are
\* by the same agent for the same message.
C18_NoInternalRetry ==
    \A i, j \in 1..Len(calls) :
        (i # j /\ calls[i].agent = calls[j].agent) => calls[i].mid # calls[j].mid

\* triage's only call failed and the run is over with no further call
C18_FailedCallNotRepeated ==
    /\ script = "ag_handoff"
    /\ main = "closed"
    /\ Len(calls) = 1
    /\ calls[1].reply = Raised

\* the tasks of a plan, and the tasks a task declares it depends on
TaskIds(plan) == { plan[i].task_id : i \in 1..Len(plan) }

Deps(plan, id) ==
    UNION { { plan[i].dependencies[j] : j \in 1..Len(plan[i].dependencies) } :
              i \in { k \in 1..Len(plan) : plan[k].task_id = id } }

RECURSIVE Ancestors(_, _, _)
Ancestors(plan, ids, n) ==
    IF n = 0 THEN ids
    ELSE ids \cup Ancestors(plan, UNION { Deps(plan, x) : x \in ids }, n - 1)

Cyclic(plan) ==
    \E id \in TaskIds(plan) : id \in Ancestors(plan, Deps(plan, id), Len(plan))

Unresolved(plan) ==
    \E id \in TaskIds(plan) : ~(Deps(plan, id) \subseteq TaskIds(plan))

\* the Planner has replied with a plan that has a cyclic or an unresolved
\* dependency
BadPlanPlanned ==
    \E i \in 1..Len(chat_history) : \E plan \in Plans :
        /\ chat_history[i].name = "Planner"
        /\ chat_history[i].content = PlanText(plan)
        /\ Cyclic(plan) \/ Unresolved(plan)

\* C19: a configuration error fails the run: a plan with a cyclic or
\* unresolved dependency never leads to a result, the run it is in does not
\* complete.
C19_BadPlanFailsFast ==
    (script = "sk_magnetic" /\ BadPlanPlanned) =>
        /\ result = <<>>
        /\ main \notin {"got", "stopped"}

\* the handoff triage publishes for a request when that request is the only
\* one: a function of that request alone
HandoffAlone(request) ==
    HandoffResponse(request, Stub("triage", request.inquiry))

\* what is printed for a request when it is the only one
ReportAlone(request) ==
    IF HandoffAlone(request).handler = "specialist"
    THEN [agent |-> "specialist", id |-> request.request_id,
          text |-> Stub("specialist", HandoffAlone(request).content)]
    ELSE [agent |-> "human", id |-> request.request_id,
          text |-> HandoffAlone(request).content]

\* C20: two requests in progress on one runtime do not affect each other:
\* the handoff published and the report printed for a request are the ones
\* the request gets when it runs alone, each at most once.
C20_SessionsIndependent ==
    script = "ag_handoff" =>
        \A k \in 1..Len(published) :
            published[k].cause = 0 =>
                LET req == published[k].msg
                    hs  == SelectSeq(published, LAMBDA p : p.cause = published[k].mid)
                    rs  == SelectSeq(printed, LAMBDA q : q.id = req.request_id)
                IN  /\ Len(hs) <= 1
                    /\ \A i \in 1..Len(hs) : hs[i].msg = HandoffAlone(req)
                    /\ Len(rs) <= 1
                    /\ \A i \in 1..Len(rs) : rs[i] = ReportAlone(req)

\* two requests were reported on, triage's calls for them interleaved with
\* each other
C20_TwoInterleaved ==
    /\ script = "ag_handoff"
    /\ main = "closed"
    /\ Len(printed) = 2
    /\ Len(calls) >= 2
    /\ calls[1].agent = "triage"
    /\ calls[2].agent = "triage"
    /\ calls[1].reply # Pending
    /\ printed[1].id # seed.request_id

\* the turns of a group chat that were taken by members other than the moderator
AnalystTurns == { k \in 1..Len(turns) : turns[k] # "Moderator" }

\* C21: the moderator's turns are not counted against max_rounds: a finished
\* round-robin session has had max_rounds turns by the other members, as
\* many as when the moderator does not speak.
C21_ModeratorTakesNoSlot ==
    (script = "sk_groupchat" /\ result # <<>>) => Cardinality(AnalystTurns) = max_rounds

\* the places in the conversation where the Planner has stated a plan
PlannedAt(plan) ==
    { i \in 1..Len(chat_history) :
        chat_history[i].name = "Planner" /\ chat_history[i].content = PlanText(plan) }

\* C22: the final recommendation comes only after every sub-task of the plan
\* has a recorded result: when the result is set, at least one response per
\* task of the plan was recorded since the plan was stated.
C22_FinalAfterSubTasks ==
    (script = "sk_magnetic" /\ result # <<>>) =>
        \A plan \in Plans : \A i \in PlannedAt(plan) :
            Len(chat_history) - i >= Len(plan)

\* the inquiries whose lower-cased text contains "invest", spelled out
InvestInquiries ==
    { <<"I"," ","w","a","n","t"," ","t","o"," ","i","n","v","e","s","t">>,
      <<"R","E","I","N","V","E","S","T","?">> }

\* C23: the handler triage puts on a handoff depends on the request's inquiry
\* alone, whatever the service replied: it is "specialist" exactly when the
\* lower-cased inquiry contains "invest" and "refund" otherwise, and the
\* reply only becomes the content.
C23_ChoiceByInquiryOnly ==
    script = "ag_handoff" =>
        \A k \in 1..Len(published) :
            published[k].msg.type = "HandoffResponse" =>
                LET req == published[published[k].cause].msg
                    c   == calls[CHOOSE i \in 1..Len(calls) :
                                    calls[i].agent = "triage" /\ calls[i].mid = published[k].cause]
                IN  /\ published[k].msg.handler =
                          (IF req.inquiry \in InvestInquiries THEN "specialist" ELSE "refund")
                    /\ published[k].msg.content = c.reply

\* an upper-case inquiry was routed to the specialist although the service
\* replied with a text that is not the stub's
C23_RoutedWhateverReply ==
    /\ script = "ag_handoff"
    /\ svc_mode = "any"
    /\ seed.inquiry = <<"R","E","I","N","V","E","S","T","?">>
    /\ Len(published) = 2
    /\ published[2].msg.handler = "specialist"
    /\ published[2].msg.content = <<"o","k">>

\* C24 as stated: every autogen handoff run ends after exactly one handoff.
C24_AlwaysOneHop ==
    (script = "ag_handoff" /\ main = "closed") => Len(published) = 2

\* C24 amended: the autogen handoff run takes at most one hop and stops: only triage
\* publishes, and only for the InvestmentRequest; HumanAdvisor never calls
\* the service; a run whose triage call returned ends with exactly one
\* handoff published, after exactly two calls (triage, then specialist) when
\* it was routed to "specialist" and exactly one call when routed to "refund".
C24_OneHopThenStop ==
    script = "ag_handoff" =>
        /\ Len(published) <= 2
        /\ \A k \in 1..Len(published) : published[k].sender \in {"", "triage"}
        /\ \A i \in 1..Len(calls) :
              /\ calls[i].agent \in {"triage", "specialist"}
              /\ calls[i].agent = "triage" =>
                    published[calls[i].mid].msg.type = "InvestmentRequest"
        /\ main = "closed" =>
              /\ (calls # <<>> /\ Answered(calls[1])) => Len(published) = 2
              /\ Len(published) = 2 =>
                    IF published[2].msg.handler = "specialist"
                    THEN /\ Len(calls) = 2
                         /\ calls[1].agent = "triage"
                         /\ calls[2].agent = "specialist"
                    ELSE /\ Len(calls) = 1
                         /\ calls[1].agent = "triage"

\* a refund request ended after triage's call alone
C24_RefundOneCall ==
    /\ script = "ag_handoff"
    /\ main = "closed"
    /\ Len(published) = 2
    /\ published[2].msg.handler = "refund"
    /\ Len(calls) = 1
    /\ printed # <<>>

CallsOf(a) == { i \in 1..Len(calls) : calls[i].agent = a }

\* C25: the autogen group chat publishes two GroupMessages and no more: the
\* seed, handled by the moderator and both analysts, and the moderator's one
\* invite, handled by the two analysts only; the analysts never publish, the
\* moderator never calls the service, and a run that ended has two calls by
\* each analyst, one per message.
C25_TwoMessagesFourCalls ==
    script = "ag_groupchat" =>
        /\ Len(published) <= 2
        /\ \A k \in 1..Len(published) :
              /\ published[k].msg.type = "GroupMessage"
              /\ published[k].sender = (IF k = 1 THEN "" ELSE "moderator")
              /\ published[k].cause = k - 1
        /\ CallsOf("moderator") = {}
        /\ \A t \in tasks : t.agent = "moderator" => t.mid = 1
        /\ \A h \in handled : h.agent = "moderator" => h.mid = 1
        /\ \A a \in {"fundamental", "risk"} :
              /\ Cardinality(CallsOf(a)) <= 2
              /\ \A i, j \in CallsOf(a) : calls[i].mid = calls[j].mid => i = j
        /\ main = "closed" =>
              /\ Len(published) = 2
              /\ published[2].msg.text = Invite(seed.text)
              /\ [agent |-> "moderator", mid |-> 1, outcome |-> "done"] \in handled
              /\ \A a \in {"fundamental", "risk"} :
                    { calls[i].mid : i \in CallsOf(a) } = {1, 2}
              /\ Len(calls) = 4

\* the chat ended with both analysts answered on the seed and on the invite
C25_ChatClosed ==
    /\ script = "ag_groupchat"
    /\ main = "closed"
    /\ Len(calls) = 4
    /\ \A i \in 1..4 : Answered(calls[i])
    /\ Cardinality({ p \in 1..Len(printed) : printed[p].agent = "risk" }) = 2

ResultsPublished == { k \in 1..Len(published) : published[k].msg.type = "AnalysisResult" }

\* C26: in the autogen fan-out nothing is triggered by an AnalysisResult, so
\* at most three calls are made, all for the request; when every call
\* returned text the run ends with exactly three AnalysisResults, one per
\* analyst, each with the analyst's own service id, the request's company and
\* id, and the text of that analyst's own call: the set of results is fixed
\* by the replies, whatever the order in which the calls completed.
C26_ThreeResultsAnyOrder ==
    script = "ag_concurrent" =>
        /\ \A t \in tasks : t.mid = 1 /\ t.msg.type = "InvestmentRequest"
        /\ \A h \in handled : h.mid = 1
        /\ Len(calls) <= 3
        /\ \A i, j \in 1..Len(calls) :
              calls[i].mid = 1 /\ (calls[i].agent = calls[j].agent => i = j)
        /\ \A k \in ResultsPublished :
              LET r == published[k] IN
              /\ r.sender \in Registered
              /\ r.topic = RESULTS_TOPIC_TYPE
              /\ r.msg.analyst_type = r.sender
              /\ r.msg.company = seed.company
              /\ r.msg.request_id = seed.request_id
              /\ \E i \in CallsOf(r.sender) : r.msg.analysis = calls[i].reply
              /\ \A l \in ResultsPublished : published[l].sender = r.sender => l = k
        /\ (main = "closed" /\ \A i \in 1..Len(calls) : Answered(calls[i])) =>
              /\ Len(calls) = 3
              /\ Len(published) = 4
              /\ { published[k].sender : k \in ResultsPublished } = Registered

\* the run ended with three results that were published in another order
\* than the calls were issued
C26_CompletedOutOfOrder ==
    /\ script = "ag_concurrent"
    /\ main = "closed"
    /\ Cardinality(ResultsPublished) = 3
    /\ calls[1].agent = published[4].sender
    /\ calls[3].agent = published[2].sender

\* C27: in the autogen pipeline a stage never reads a key that was not
\* written: whenever a message is with FundamentalAnalyst, "collected" is in
\* its data, whenever one is with ReportGenerator, "analysis" is, and no
\* handler of these two stages ended in an exception other than a failed call.
C27_KeysWrittenBeforeRead ==
    script = "ag_sequential" =>
        /\ \A t \in tasks :
              /\ t.agent = "FundamentalAnalyst" => DictHas(task.data, "collected")
              /\ t.agent = "ReportGenerator" =>
                    DictHas(task.data, "collected") /\ DictHas(task.data, "analysis")
        /\ \A h \in handled :
              (h.outcome = "raised" /\ h.agent \in {"FundamentalAnalyst", "ReportGenerator"}) =>
                  \E i \in CallsOf(h.agent) : calls[i].mid = h.mid /\ calls[i].reply = Raised
        /\ \A i \in CallsOf("FundamentalAnalyst") :
              calls[i].content = DictGet(published[calls[i].mid].msg.data, "collected")
        /\ \A i \in CallsOf("ReportGenerator") :
              calls[i].content = DictGet(published[calls[i].mid].msg.data, "analysis")

\* the report stage has read "analysis" and issued its call
C27_ReportRead ==
    /\ script = "ag_sequential"
    /\ \E t \in Awaiting("ReportGenerator") :
          calls[t.call].content = DictGet(task.data, "analysis")
    /\ Cardinality(CallsOf("FundamentalAnalyst")) = 1

\* a step reaches "stopped" from the returned await only, and leaves a
\* script that ended with an exception where it is
StopsFromGotOnly ==
    script \in SkScripts =>
        /\ (main' = "stopped" /\ main # "stopped") => main = "got"
        /\ main = "raised" => main' = "raised"

\* C28: in the semantic-kernel scripts the runtime is stopped on the success
\* path only: stop_when_idle is reached from the point where the await of
\* the result returned and from nowhere else, so a stopped run has its result
\* and no error; a script whose await raised stays ended with the exception,
\* its runtime never stopped.
C28_StoppedOnSuccessOnly ==
    /\ [](script \in SkScripts =>
            /\ main = "stopped" => (result # <<>> /\ error = "none")
            /\ main = "raised" => error # "none")
    /\ [][StopsFromGotOnly]_vars

\* the await raised after a member had already answered
C28_RaisedRuntimeStarted ==
    /\ script \in SkScripts
    /\ main = "raised"
    /\ error = "TimeoutError"
    /\ turns # <<>>

\* the text has the word somewhere, in any mix of cases; a word is given as
\* the sequence of its letters, each as the set of its two cases
Mentions(text, word) ==
    \E i \in 0..(Len(text) - Len(word)) : \A j \in 1..Len(word) : text[i + j] \in word[j]

W_BUY  == << {"B", "b"}, {"U", "u"}, {"Y", "y"} >>
W_SELL == << {"S", "s"}, {"E", "e"}, {"L", "l"}, {"L", "l"} >>

\* C29: the recommendation of every published AnalysisResult is fixed by its
\* analysis text, BUY first: BUY with confidence 0.8 when the text mentions
\* "buy" in any case (whether or not it mentions "sell"), SELL with 0.75 when
\* it mentions "sell" and not "buy", HOLD with 0.7 otherwise.
C29_BuyBeforeSell ==
    script = "ag_concurrent" =>
        \A k \in ResultsPublished :
            LET m == published[k].msg IN
            <<m.recommendation, m.confidence_score>> =
                IF Mentions(m.analysis, W_BUY) THEN <<"BUY", 80>>
                ELSE IF Mentions(m.analysis, W_SELL) THEN <<"SELL", 75>>
                ELSE <<"HOLD", 70>>

\* results of all three kinds were published, the BUY one for a reply that
\* mentions both words
C29_AllThreeKinds ==
    /\ script = "ag_concurrent"
    /\ \E k \in ResultsPublished :
          /\ published[k].msg.analysis = <<"S","E","L","L","b","u","y">>
          /\ published[k].msg.recommendation = "BUY"
          /\ published[k].msg.confidence_score = 80
    /\ \E k \in ResultsPublished :
          /\ published[k].msg.analysis = <<"s","e","l","l">>
          /\ published[k].msg.recommendation = "SELL"
    /\ \E k \in ResultsPublished :
          /\ published[k].msg.analysis = <<"o","k">>
          /\ published[k].msg.recommendation = "HOLD"

=============================================================================
